---- MODULE Spec2Model ----
(***************************************************************************)
(* Model of the smart-email-auto-responder decision-and-generation         *)
(* pipeline: decide_action (decision/decision_engine.py), the generation   *)
(* orchestrator DraftGenerator.generate (responder/draft_generator.py),    *)
(* the response validator ResponseValidator.validate                       *)
(* (src/validation/validator.py), the batch run of main.py and the         *)
(* Telegram approval bot (automation/telegram_bot.py) over the persisted   *)
(* draft file.                                                             *)
(*                                                                         *)
(* Confidences are percentages (0.85 is 85).  Python's None is the string  *)
(* None.                                                                   *)
(***************************************************************************)
EXTENDS Integers, Sequences, FiniteSets, TLC

VARIABLES
    \* one call of decide_action: its arguments and its return value
    dPhase, dIntent, dUrgency, dTone, dOut,
    \* one call of DraftGenerator.generate: the generator's configuration, the
    \* arguments, the collaborators' outcomes and the return value with the
    \* collaborator calls made
    gPhase, gCfg, gIntent, gUrgency, gSentiment, gEnv, gOut,
    \* one call of ResponseValidator.validate: its arguments and its return
    \* value
    vPhase, vDraft, vIntent, vSentiment, vGenConf, vClassConf, vOut,
    \* data/pending_drafts.json
    file,
    \* the bot: context.user_data of each operator, what the running handler
    \* still does after the reply it awaits, and the last reply sent
    user_data, botCont, reply,
    \* history: per stored id, the decision and the validation verdict its
    \* record was stored under; the store the acknowledged writes add up to
    origin, expected,
    \* history: per operator, the draft that was focused when the operator's
    \* pending 'modify' was issued
    modifyTarget

dvars == <<dPhase, dIntent, dUrgency, dTone, dOut>>
gvars == <<gPhase, gCfg, gIntent, gUrgency, gSentiment, gEnv, gOut>>
botvars == <<user_data, botCont, reply>>
svars == <<file, botvars, origin, expected, modifyTarget>>
vvars == <<vPhase, vDraft, vIntent, vSentiment, vGenConf, vClassConf, vOut>>
vars == <<dvars, gvars, vvars, svars>>

None == "None"

Min2(a, b) == IF a <= b THEN a ELSE b
Min3(a, b, c) == Min2(a, Min2(b, c))

(***************************************************************************)
(* Inputs of the classifiers' boundary.                                    *)
(***************************************************************************)
\* The seven labels of IntentClassifier plus a label outside the table.
IntentLabels ==
    {"academic", "internship", "meeting", "support", "complaint", "spam",
     "general", "newsletter"}

\* analyze_tone yields the upper-case labels; SentimentAnalyzer yields the
\* lower-case tone "aggressive".
ToneLabels == {"AGGRESSIVE", "FORMAL", "NEUTRAL", "aggressive"}

\* Confidence values around every threshold of the decision table.
ConfLevels == {0, 65, 70, 74, 75, 79, 80, 84, 85, 90}

(***************************************************************************)
(* decision/decision_engine.py                                             *)
(***************************************************************************)
\* thresholds.get(intent_type, 0.85)
DecisionThreshold(intent_type) ==
    CASE intent_type = "academic" -> 80
      [] intent_type = "internship" -> 75
      [] intent_type = "meeting" -> 70
      [] intent_type = "spam" -> 0
      [] OTHER -> 85

Decision(action, reason, value) ==
    [action |-> action, reason |-> reason, value |-> value]

\* The tone check of decide_action, with the spam check moved before it.
decide_action_SpamFirst(intent, urgency, tone) ==
    LET intent_type == intent.intent
        min_confidence ==
            Min3(intent.confidence, urgency.confidence, tone.confidence)
        threshold == DecisionThreshold(intent_type)
    IN  IF intent_type = "spam" /\ min_confidence >= threshold
        THEN Decision("IGNORE", "Spam detected", -1)
        ELSE IF tone.tone = "AGGRESSIVE"
        THEN Decision("ESCALATE", "Aggressive tone detected", -1)
        ELSE IF min_confidence < threshold
        THEN Decision("ESCALATE", "Low confidence", min_confidence)
        ELSE Decision("DRAFT_REPLY", "Safe to draft response", -1)

\* decide_action with <= in place of < in the confidence comparison.
decide_action_Inclusive(intent, urgency, tone) ==
    LET intent_type == intent.intent
        min_confidence ==
            Min3(intent.confidence, urgency.confidence, tone.confidence)
        threshold == DecisionThreshold(intent_type)
    IN  IF tone.tone = "AGGRESSIVE"
        THEN Decision("ESCALATE", "Aggressive tone detected", -1)
        ELSE IF min_confidence <= threshold
        THEN Decision("ESCALATE", "Low confidence", min_confidence)
        ELSE IF intent_type = "spam"
        THEN Decision("IGNORE", "Spam detected", -1)
        ELSE Decision("DRAFT_REPLY", "Safe to draft response", -1)

\* decide_action with the spam short-circuit left out.
decide_action_NoSpam(intent, urgency, tone) ==
    LET intent_type == intent.intent
        min_confidence ==
            Min3(intent.confidence, urgency.confidence, tone.confidence)
        threshold == DecisionThreshold(intent_type)
    IN  IF tone.tone = "AGGRESSIVE"
        THEN Decision("ESCALATE", "Aggressive tone detected", -1)
        ELSE IF min_confidence < threshold
        THEN Decision("ESCALATE", "Low confidence", min_confidence)
        ELSE Decision("DRAFT_REPLY", "Safe to draft response", -1)

decide_action(intent, urgency, tone) ==
    LET intent_type == intent.intent
        min_confidence ==
            Min3(intent.confidence, urgency.confidence, tone.confidence)
        threshold == DecisionThreshold(intent_type)
    IN  IF tone.tone = "AGGRESSIVE"
        THEN Decision("ESCALATE", "Aggressive tone detected", -1)
        ELSE IF min_confidence < threshold
        THEN Decision("ESCALATE", "Low confidence", min_confidence)
        ELSE IF intent_type = "spam"
        THEN Decision("IGNORE", "Spam detected", -1)
        ELSE Decision("DRAFT_REPLY", "Safe to draft response", -1)

NoDecision == Decision("none", "none", -1)

(***************************************************************************)
(* Specification of decide_action: the inputs are drawn in the initial     *)
(* state and one call applies the function.                                *)
(***************************************************************************)
DInit ==
    /\ dPhase = "input"
    /\ dIntent \in [intent : IntentLabels, confidence : ConfLevels]
    /\ dUrgency \in [urgency : {"medium"}, confidence : ConfLevels]
    /\ dTone \in [tone : ToneLabels, confidence : ConfLevels]
    /\ dOut = NoDecision

DIdle ==
    /\ dPhase = "idle"
    /\ dIntent = [intent |-> "general", confidence |-> 0]
    /\ dUrgency = [urgency |-> "medium", confidence |-> 0]
    /\ dTone = [tone |-> "NEUTRAL", confidence |-> 0]
    /\ dOut = NoDecision

DecideCall ==
    /\ dPhase = "input"
    /\ dOut' = decide_action(dIntent, dUrgency, dTone)
    /\ dPhase' = "done"
    /\ UNCHANGED <<dIntent, dUrgency, dTone>>
    /\ UNCHANGED <<gvars, vvars, svars>>

dMin == Min3(dIntent.confidence, dUrgency.confidence, dTone.confidence)

\* C1: whenever the tone label is AGGRESSIVE, decide_action returns ESCALATE
\* with reason 'Aggressive tone detected', for every intent (spam included)
\* and every combination of the three confidences.
C1_AggressiveEscalates ==
    (dPhase = "done" /\ dTone.tone = "AGGRESSIVE")
        => (dOut.action = "ESCALATE" /\ dOut.reason = "Aggressive tone detected")

\* C1 witness: an aggressive spam message whose confidences clear the spam
\* threshold has been decided.
C1_Witness ==
    /\ dPhase = "done"
    /\ dTone.tone = "AGGRESSIVE"
    /\ dIntent.intent = "spam"
    /\ dMin = 90
    /\ dOut.action = "ESCALATE"

\* C8: a minimum confidence below the intent's threshold (academic 80,
\* internship 75, meeting 70, spam 0, any other label 85) yields ESCALATE; a
\* minimum exactly equal to the threshold is not escalated for low confidence
\* (the result is ESCALATE only if the tone is AGGRESSIVE).
C8_BelowThresholdEscalates ==
    dPhase = "done" =>
        LET t == CASE dIntent.intent = "academic" -> 80
                   [] dIntent.intent = "internship" -> 75
                   [] dIntent.intent = "meeting" -> 70
                   [] dIntent.intent = "spam" -> 0
                   [] OTHER -> 85
        IN  /\ dMin < t => dOut.action = "ESCALATE"
            /\ dMin = t => dOut.reason # "Low confidence"
            /\ (dMin = t /\ dTone.tone # "AGGRESSIVE") => dOut.action # "ESCALATE"

\* C8 witness: an internship message at exactly 75 was not escalated.
C8_Witness ==
    /\ dPhase = "done"
    /\ dIntent.intent = "internship"
    /\ dMin = 75
    /\ dTone.tone = "NEUTRAL"
    /\ dOut.action = "DRAFT_REPLY"

\* C9: with a tone other than AGGRESSIVE and a minimum confidence at or above
\* the threshold, decide_action returns IGNORE for spam and DRAFT_REPLY for
\* every other intent; DRAFT_REPLY is never returned for spam, an aggressive
\* tone or a below-threshold confidence.
C9_IgnoreOrDraft ==
    dPhase = "done" =>
        LET ok == dTone.tone # "AGGRESSIVE"
                    /\ dMin >= DecisionThreshold(dIntent.intent)
        IN  /\ (ok /\ dIntent.intent = "spam") => dOut.action = "IGNORE"
            /\ (ok /\ dIntent.intent # "spam") => dOut.action = "DRAFT_REPLY"
            /\ dOut.action = "DRAFT_REPLY" => (ok /\ dIntent.intent # "spam")

\* C9 witness: a spam message with a non-aggressive tone was ignored.
C9_Witness ==
    /\ dPhase = "done"
    /\ dIntent.intent = "spam"
    /\ dTone.tone = "FORMAL"
    /\ dOut.action = "IGNORE"

(***************************************************************************)
(* responder/draft_generator.py: the generation orchestrator and its       *)
(* strategy providers.  A draft text is named by a token: the texts the     *)
(* providers build are fixed per intent.                                    *)
(***************************************************************************)
GenResult(draft, method, confidence) ==
    [draft |-> draft, method |-> method, confidence |-> confidence]

\* A strategy helper returning None.
NoResult == GenResult(None, None, 0)

\* f"Hello,\n\nThank you for your email. I will respond shortly. ..."
GenericAck == "generic_ack"

\* self.templates.get(intent, self.templates["general"]), rendered
TemplateText(intent) ==
    CASE intent = "academic" -> "tpl_academic"
      [] intent = "internship" -> "tpl_internship"
      [] intent = "meeting" -> "tpl_meeting"
      [] intent = "support" -> "tpl_support"
      [] OTHER -> "tpl_general"

\* TemplateEngine.generate: the rendered template, or its own fallback when
\* rendering raises.
TemplateEngineGenerate(intent, outcome) ==
    IF outcome = "ok"
    THEN GenResult(TemplateText(intent), "template", 85)
    ELSE GenResult(GenericAck, "template_fallback", 70)

\* LLMGenerator._generate_fallback: templates.get(intent, templates["general"])
LLMFallbackText(intent) ==
    CASE intent = "academic" -> "llmfb_academic"
      [] intent = "internship" -> "llmfb_internship"
      [] intent = "meeting" -> "llmfb_meeting"
      [] intent = "support" -> "llmfb_support"
      [] OTHER -> "llmfb_general"

\* LLMGenerator.generate: the model's text when a model is loaded, the
\* rule-based text otherwise.
LLMGenerate(model, intent, context) ==
    IF model = "loaded"
    THEN GenResult(IF context THEN "llm_text_ctx" ELSE "llm_text", "llm", 80)
    ELSE GenResult(LLMFallbackText(intent), "llm_fallback", 65)

Step(result, calls) == [result |-> result, calls |-> calls]

\* An exception leaving the code that raised it.
Raised == GenResult(None, "exception", 0)

\* _generate_with_rag_llm generating even when nothing was retrieved.
RagLlmBody_NoContextCheck(cfg, intent, env) ==
    IF env.rag = "raise"
    THEN Step(Raised, <<"rag_retrieve">>)
    ELSE IF ~cfg.use_llm
    THEN Step(Raised, <<"rag_retrieve">>)
    ELSE IF env.llm_rag = "raise"
    THEN Step(Raised, <<"rag_retrieve", "llm_generate_ctx">>)
    ELSE Step([LLMGenerate(cfg.model, intent, TRUE) EXCEPT !.method = "rag_llm"],
              <<"rag_retrieve", "llm_generate_ctx">>)

\* _generate_with_rag_llm lines 136-154: the body of its try block.  The
\* collaborators called are recorded: the retrieval, then the LLM with the
\* retrieved context.
RagLlmBody(cfg, intent, env) ==
    IF env.rag = "raise"
    THEN Step(Raised, <<"rag_retrieve">>)
    ELSE IF env.rag = "empty"
    THEN Step(NoResult, <<"rag_retrieve">>)
    ELSE IF ~cfg.use_llm
    THEN \* self.llm_generator is None: the call raises AttributeError
         Step(Raised, <<"rag_retrieve">>)
    ELSE IF env.llm_rag = "raise"
    THEN Step(Raised, <<"rag_retrieve", "llm_generate_ctx">>)
    ELSE Step([LLMGenerate(cfg.model, intent, TRUE) EXCEPT !.method = "rag_llm"],
              <<"rag_retrieve", "llm_generate_ctx">>)

\* _generate_with_rag_llm without its except clause.
GenerateWithRagLlm_NoCatch(cfg, intent, env) == RagLlmBody(cfg, intent, env)

\* DraftGenerator._generate_with_rag_llm: lines 156-158 turn an exception of
\* the body into None.
GenerateWithRagLlm(cfg, intent, env) ==
    LET body == RagLlmBody(cfg, intent, env)
    IN  IF body.result = Raised THEN Step(NoResult, body.calls) ELSE body

\* _generate_with_llm lines 169-177: the body of its try block.
LlmBody(cfg, intent, env) ==
    IF env.llm = "raise"
    THEN Step(Raised, <<"llm_generate">>)
    ELSE Step(LLMGenerate(cfg.model, intent, FALSE), <<"llm_generate">>)

\* DraftGenerator._generate_with_llm: lines 179-181 turn an exception of the
\* body into None.
GenerateWithLlm(cfg, intent, env) ==
    LET body == LlmBody(cfg, intent, env)
    IN  IF body.result = Raised THEN Step(NoResult, body.calls) ELSE body

\* _generate_with_template lines 192-198: the body of its try block.
TemplateBody(cfg, intent, env) ==
    IF env.tpl = "raise"
    THEN Step(Raised, <<"template">>)
    ELSE Step(TemplateEngineGenerate(intent, env.tpl), <<"template">>)

\* DraftGenerator._generate_with_template: lines 200-207 turn an exception of
\* the body into the generic text.
GenerateWithTemplate(cfg, intent, env) ==
    LET body == TemplateBody(cfg, intent, env)
    IN  IF body.result = Raised
        THEN Step(GenResult(GenericAck, "template_fallback", 65), body.calls)
        ELSE body

\* generate lines 86-92: the result for an escalation-flagged sentiment.
EscalatedResult == GenResult(None, "escalated", 0)

\* The final fallback of generate returning no text.
FinalFallback_NoText == GenResult(None, "fallback", 60)

\* The final fallback of generate passing for a template failure.
FinalFallback_AsTemplate == GenResult(GenericAck, "template_fallback", 65)

\* generate lines 118-123
FinalFallback == GenResult(GenericAck, "fallback", 60)

\* sentiment.get("escalate", False)
EscalateFlag(sentiment) == sentiment.escalate = "true"

\* generate line 98: result and result.get("confidence", 0) > 0.75
RagAccepted(result) == result.method # None /\ result.confidence > 75

\* The LLM acceptance test letting the rule-based text (0.65) through.
LlmAccepted_Inclusive(result) == result.method # None /\ result.confidence >= 65

\* generate line 106: result and result.get("confidence", 0) > 0.70
LlmAccepted(result) == result.method # None /\ result.confidence > 70

\* generate lines 102-123: the strategies from the LLM-only one on.  An
\* exception leaving a helper leaves generate.
FromLlm(cfg, intent_label, env, calls) ==
    LET llm == IF cfg.use_llm
               THEN GenerateWithLlm(cfg, intent_label, env)
               ELSE Step(NoResult, <<>>)
    IN  IF llm.result = Raised
        THEN Step(Raised, calls \o llm.calls)
        ELSE IF LlmAccepted(llm.result)
        THEN Step(llm.result, calls \o llm.calls)
        ELSE IF cfg.use_templates
        THEN LET t == GenerateWithTemplate(cfg, intent_label, env)
             IN  Step(t.result, calls \o llm.calls \o t.calls)
        ELSE Step(FinalFallback, calls \o llm.calls)

\* generate running every strategy and keeping the most confident result.
Strategies_BestOf(cfg, intent_label, env) ==
    LET rag == IF cfg.use_rag /\ intent_label \in {"academic", "internship", "support"}
               THEN GenerateWithRagLlm(cfg, intent_label, env)
               ELSE Step(NoResult, <<>>)
        rest == FromLlm(cfg, intent_label, env, rag.calls)
    IN  IF RagAccepted(rag.result)
           /\ rag.result.confidence >= rest.result.confidence
        THEN Step(rag.result, rest.calls)
        ELSE rest

\* generate lines 94-123: the strategies, in order.
Strategies(cfg, intent_label, env) ==
    LET rag == IF cfg.use_rag /\ intent_label \in {"academic", "internship", "support"}
               THEN GenerateWithRagLlm(cfg, intent_label, env)
               ELSE Step(NoResult, <<>>)
    IN  IF rag.result = Raised
        THEN rag
        ELSE IF RagAccepted(rag.result)
        THEN rag
        ELSE FromLlm(cfg, intent_label, env, rag.calls)

\* generate with the safety check placed after the strategies have run.
generate_SafetyLast(cfg, intent, urgency, sentiment, env) ==
    LET s == Strategies(cfg, intent.intent, env)
    IN  IF EscalateFlag(sentiment) THEN Step(EscalatedResult, s.calls) ELSE s

\* DraftGenerator.generate
generate(cfg, intent, urgency, sentiment, env) ==
    IF EscalateFlag(sentiment)
    THEN Step(EscalatedResult, <<>>)
    ELSE Strategies(cfg, intent.intent, env)

(***************************************************************************)
(* Specification of generate: configuration, arguments and collaborator    *)
(* outcomes are drawn in the initial state and one call applies it.         *)
(***************************************************************************)
Configs ==
    [use_rag : BOOLEAN, use_llm : BOOLEAN, use_templates : BOOLEAN,
     model : {"none", "loaded"}]

Envs ==
    [rag : {"context", "empty", "raise"}, llm_rag : {"ok", "raise"},
     llm : {"ok", "raise"}, tpl : {"ok", "render_error", "raise"}]

GInit ==
    /\ gPhase = "input"
    /\ gCfg \in Configs
    /\ gIntent \in [intent : IntentLabels, confidence : {85}]
    /\ gUrgency \in [urgency : {"high", "medium"}, confidence : {85}]
    /\ gSentiment \in [sentiment : {"neutral", "negative"},
                       escalate : {"true", "false", "missing"}]
    /\ gEnv \in Envs
    /\ gOut = Step(NoResult, <<>>)

GIdle ==
    /\ gPhase = "idle"
    /\ gCfg = [use_rag |-> TRUE, use_llm |-> TRUE, use_templates |-> TRUE,
               model |-> "none"]
    /\ gIntent = [intent |-> "general", confidence |-> 85]
    /\ gUrgency = [urgency |-> "medium", confidence |-> 85]
    /\ gSentiment = [sentiment |-> "neutral", escalate |-> "false"]
    /\ gEnv = [rag |-> "empty", llm_rag |-> "ok", llm |-> "ok", tpl |-> "ok"]
    /\ gOut = Step(NoResult, <<>>)

GenerateCall ==
    /\ gPhase = "input"
    /\ gOut' = generate(gCfg, gIntent, gUrgency, gSentiment, gEnv)
    /\ gPhase' = "done"
    /\ UNCHANGED <<gCfg, gIntent, gUrgency, gSentiment, gEnv>>
    /\ UNCHANGED <<dvars, vvars, svars>>

(***************************************************************************)
(* src/validation/validator.py: ResponseValidator.  What the checks read   *)
(* of a draft text is given per text: the texts the providers build with a  *)
(* plain sender name and subject, and texts an operator types.              *)
(***************************************************************************)
\* The validator reading the threshold table of decide_action.
ValidatorThreshold_AsDecision(intent) == DecisionThreshold(intent)

\* self.confidence_thresholds.get(intent, 0.75)
ValidatorThreshold(intent) ==
    CASE intent = "academic" -> 80
      [] intent = "internship" -> 75
      [] intent = "meeting" -> 70
      [] intent = "support" -> 75
      [] intent = "complaint" -> 85
      [] intent = "spam" -> 90
      [] intent = "general" -> 70
      [] OTHER -> 75

min_word_count == 10
max_word_count == 500

\* The texts beginning with "Hello": every template but the academic one and
\* the generic acknowledgment.
HelloTexts ==
    {"tpl_internship", "tpl_meeting", "tpl_support", "tpl_general",
     "llmfb_internship", "llmfb_meeting", "llmfb_support", "llmfb_general",
     GenericAck}

\* The texts beginning with "Dear".
DearTexts == {"tpl_academic", "llmfb_academic"}

\* len(draft.split())
WordCount(draft) ==
    CASE draft = "send" -> 1
      [] draft = "please shorten" -> 2
      [] draft = GenericAck -> 13
      [] draft = "long_report" -> 501
      [] draft \in HelloTexts \cup DearTexts -> 21

\* [word for word in self.inappropriate_words if word in draft.lower()]:
\* a substring test, so "hello" holds "hell".
InappropriateFound(draft) ==
    IF draft \in HelloTexts THEN {"hell"} ELSE {}

\* _has_greeting
HasGreeting(draft) == draft \in HelloTexts \cup DearTexts

\* _has_signature
HasSignature(draft) == draft \in HelloTexts \cup DearTexts

\* _check_grammar: no text here ends with '.', '!' or '?'
GrammarIssues(draft) == <<[type |-> "missing_punctuation", severity |-> "low"]>>

Issue(type, severity) == [type |-> type, severity |-> severity]

\* validate lines 73-83
ConfidenceIssues(intent, min_confidence) ==
    IF min_confidence < ValidatorThreshold(intent)
    THEN <<Issue("low_confidence", "high")>>
    ELSE <<>>

\* validate lines 85-93
LengthIssues(word_count) ==
    IF word_count < min_word_count
    THEN <<Issue("too_short", "medium")>>
    ELSE <<>>

\* validate lines 94-100
LengthWarnings(word_count) ==
    IF word_count >= min_word_count /\ word_count > max_word_count
    THEN <<Issue("too_long", "low")>>
    ELSE <<>>

\* validate lines 102-110
ContentIssues(draft) ==
    IF InappropriateFound(draft) # {}
    THEN <<Issue("inappropriate_content", "critical")>>
    ELSE <<>>

\* validate lines 112-128
StructureWarnings(draft) ==
    (IF ~HasGreeting(draft) THEN <<Issue("missing_greeting", "low")>> ELSE <<>>)
    \o (IF ~HasSignature(draft) THEN <<Issue("missing_signature", "low")>> ELSE <<>>)

\* The tone check comparing with the upper-case label of analyze_tone.
ToneIssues_UpperCase(sentiment) ==
    IF sentiment = "AGGRESSIVE"
    THEN <<Issue("aggressive_sender", "critical")>>
    ELSE <<>>

\* validate lines 130-137
ToneIssues(sentiment) ==
    IF sentiment = "aggressive"
    THEN <<Issue("aggressive_sender", "critical")>>
    ELSE <<>>

\* The verdict failing on a medium issue as well.
Passed_MediumFails(issues) ==
    \A k \in DOMAIN issues : issues[k].severity \notin {"critical", "high", "medium"}

\* validate line 145
Passed(issues) ==
    \A k \in DOMAIN issues : issues[k].severity \notin {"critical", "high"}

\* ResponseValidator.validate
validate(draft, intent, sentiment, generation_confidence, classification_confidence) ==
    LET min_confidence == Min2(generation_confidence, classification_confidence)
        word_count == WordCount(draft)
        issues == ConfidenceIssues(intent, min_confidence)
                  \o LengthIssues(word_count)
                  \o ContentIssues(draft)
                  \o ToneIssues(sentiment)
        warnings == LengthWarnings(word_count)
                    \o StructureWarnings(draft)
                    \o GrammarIssues(draft)
    IN  [passed |-> Passed(issues),
         confidence |-> min_confidence,
         issues |-> issues,
         warnings |-> warnings,
         recommendation |-> IF Passed(issues) THEN "approve" ELSE "escalate"]

(***************************************************************************)
(* Specification of validate: the arguments are drawn in the initial state *)
(* and one call applies it.                                                 *)
(***************************************************************************)
\* The drafts validated: a clean template text, two texts with "Hello", two
\* short texts and a long one.
ValDrafts ==
    {"tpl_academic", "tpl_general", GenericAck, "send", "please shorten",
     "long_report"}

\* The sentiment labels of SentimentAnalyzer and the label the tone check
\* looks for.
SentimentLabels == {"positive", "neutral", "negative", "aggressive"}

NoValidation ==
    [passed |-> FALSE, confidence |-> 0, issues |-> <<>>, warnings |-> <<>>,
     recommendation |-> None]

VInit ==
    /\ vPhase = "input"
    /\ vDraft \in ValDrafts
    /\ vIntent \in IntentLabels
    /\ vSentiment \in SentimentLabels
    /\ vGenConf \in ConfLevels
    /\ vClassConf \in ConfLevels
    /\ vOut = NoValidation

VIdle ==
    /\ vPhase = "idle"
    /\ vDraft = GenericAck
    /\ vIntent = "general"
    /\ vSentiment = "neutral"
    /\ vGenConf = 0
    /\ vClassConf = 0
    /\ vOut = NoValidation

ValidateCall ==
    /\ vPhase = "input"
    /\ vOut' = validate(vDraft, vIntent, vSentiment, vGenConf, vClassConf)
    /\ vPhase' = "done"
    /\ UNCHANGED <<vDraft, vIntent, vSentiment, vGenConf, vClassConf>>
    /\ UNCHANGED <<dvars, gvars, svars>>

(***************************************************************************)
(* responder/draft_generator.py, validate_draft and the example run at the *)
(* end of the file: a draft is generated and, when there is one, validated  *)
(* with the signals it was generated from.                                  *)
(***************************************************************************)
\* DraftGenerator.validate_draft
validate_draft(draft, intent, urgency, sentiment, generation_confidence) ==
    validate(draft, intent.intent, sentiment.sentiment, generation_confidence,
             Min3(intent.confidence, urgency.confidence, sentiment.confidence))

\* What SentimentAnalyzer.analyze returns: the three aggressive results with
\* the escalation flag, and positive, negative and neutral results without.
SentimentSignals ==
    [sentiment : {"negative"}, tone : {"aggressive"}, confidence : {75, 85, 90},
     escalate : {"true"}]
    \cup [sentiment : {"positive", "negative"}, tone : {"neutral"},
          confidence : {75, 90}, escalate : {"false"}]
    \cup [sentiment : {"neutral"}, tone : {"neutral"}, confidence : {75},
          escalate : {"false"}]

\* DraftGenerator built without a model path: no model is loaded.
PipeConfigs == {c \in Configs : c.model = "none"}

PipeEnvs ==
    [rag : {"context", "empty"}, llm_rag : {"ok"}, llm : {"ok"},
     tpl : {"ok", "render_error", "raise"}]

GVInit ==
    /\ gPhase = "input"
    /\ gCfg \in PipeConfigs
    /\ gIntent \in [intent : IntentLabels, confidence : {70, 85, 90}]
    /\ gUrgency \in [urgency : {"medium"}, confidence : {85, 90}]
    /\ gSentiment \in SentimentSignals
    /\ gEnv \in PipeEnvs
    /\ gOut = Step(NoResult, <<>>)
    /\ vPhase = "input"
    /\ vDraft = GenericAck
    /\ vIntent = "general"
    /\ vSentiment = "neutral"
    /\ vGenConf = 0
    /\ vClassConf = 0
    /\ vOut = NoValidation

\* draft_generator.py lines 296-304: the generated draft, when there is one,
\* is validated.
ValidateGenerated ==
    /\ gPhase = "done"
    /\ vPhase = "input"
    /\ gOut.result.draft # None
    /\ vDraft' = gOut.result.draft
    /\ vIntent' = gIntent.intent
    /\ vSentiment' = gSentiment.sentiment
    /\ vGenConf' = gOut.result.confidence
    /\ vClassConf' = Min3(gIntent.confidence, gUrgency.confidence, gSentiment.confidence)
    /\ vOut' = validate_draft(gOut.result.draft, gIntent, gUrgency, gSentiment,
                              gOut.result.confidence)
    /\ vPhase' = "done"
    /\ UNCHANGED <<gvars, dvars, svars>>

\* validate_draft called on a draft that was written elsewhere.
ValidateDraftCall ==
    /\ gPhase = "input"
    /\ vPhase = "input"
    /\ \E draft \in ValDrafts :
         /\ vDraft' = draft
         /\ vOut' = validate_draft(draft, gIntent, gUrgency, gSentiment, 85)
    /\ vIntent' = gIntent.intent
    /\ vSentiment' = gSentiment.sentiment
    /\ vGenConf' = 85
    /\ vClassConf' = Min3(gIntent.confidence, gUrgency.confidence, gSentiment.confidence)
    /\ vPhase' = "direct"
    /\ UNCHANGED <<gvars, dvars, svars>>

(***************************************************************************)
(* The draft store: data/pending_drafts.json, a JSON object from message   *)
(* id to {draft, email}, read and written whole.                            *)
(***************************************************************************)
\* The number of message ids.
NumIds == 2

IdNames == <<"1", "2", "3">>

\* str(email["id"]) of the messages
Ids == {IdNames[i] : i \in 1..NumIds}
\* An id no message has.
UnknownId == "99"
\* The Telegram users talking to the bot: an operator and another one.
Operators == {"op1", "op2"}

EmptyDict == [x \in {} |-> None]
DictPut(d, k, v) == [x \in (DOMAIN d) \cup {k} |-> IF x = k THEN v ELSE d[x]]
DictDel(d, k) == [x \in (DOMAIN d) \ {k} |-> d[x]]

DraftRecord(draft, email) == [draft |-> draft, email |-> email]

\* json.load of the file; a missing file reads as the empty store.
LoadOf(f) == IF f.exists THEN f.drafts ELSE EmptyDict

\* load_drafts
load_drafts == LoadOf(file)

\* save_drafts: the file is rewritten with the whole dictionary.
save_drafts(drafts) == [exists |-> TRUE, drafts |-> drafts]

\* remove_draft deleting from the loaded dictionary without saving it.
RemoveDraftFile_NoSave(email_id) == file

\* remove_draft answering True and saving whether or not the id is stored.
remove_draft_AlwaysTrue(f, email_id) ==
    [result |-> TRUE, file |-> save_drafts(DictDel(LoadOf(f), email_id))]

\* remove_draft over the file f: its return value and the file it leaves.
remove_draft(f, email_id) ==
    LET drafts == LoadOf(f)
    IN  IF email_id \in DOMAIN drafts
        THEN [result |-> TRUE, file |-> save_drafts(DictDel(drafts, email_id))]
        ELSE [result |-> FALSE, file |-> f]

\* remove_draft: the file it leaves.
RemoveDraftFile(email_id) == remove_draft(file, email_id).file

\* remove_draft: its return value.
RemoveDraftResult(email_id) == remove_draft(file, email_id).result

(***************************************************************************)
(* main.py: one batch run.  The script works on process-local data until   *)
(* it writes the file, so a run is one step of the store.                   *)
(***************************************************************************)
\* from store.shared import pending_drafts: the process-wide in-memory map,
\* empty when the script starts.
SharedPendingDrafts == EmptyDict

\* What a batch holds for a message id: no email, or an email with the
\* signals the classifiers give it and the outcome of template rendering.
BatchEmail(present, intent, tone, tpl) ==
    [present |-> present, intent |-> intent, tone |-> tone, tpl |-> tpl]

BatchEmails ==
    {BatchEmail(FALSE, "spam", "NEUTRAL", "ok"),
     BatchEmail(TRUE, "spam", "NEUTRAL", "ok"),
     BatchEmail(TRUE, "academic", "AGGRESSIVE", "ok"),
     BatchEmail(TRUE, "academic", "NEUTRAL", "ok"),
     BatchEmail(TRUE, "academic", "NEUTRAL", "raise")}

\* DraftGenerator(): every strategy enabled, no model path, no knowledge base.
DefaultConfig ==
    [use_rag |-> TRUE, use_llm |-> TRUE, use_templates |-> TRUE, model |-> "none"]

\* generate_draft(email, intent): the legacy wrapper main.py calls, with its
\* dummy urgency and sentiment.  RAGSystem() without a knowledge base
\* retrieves nothing.
generate_draft(intent, tpl) ==
    generate(DefaultConfig, intent,
             [urgency |-> "medium", confidence |-> 75],
             [sentiment |-> "neutral", confidence |-> 75, escalate |-> "false"],
             [rag |-> "empty", llm_rag |-> "ok", llm |-> "ok", tpl |-> tpl]
            ).result.draft

\* main.py lines 14-17: the decision for one email of the batch.
BatchDecision(e) ==
    decide_action([intent |-> e.intent, confidence |-> 90],
                  [urgency |-> "medium", confidence |-> 90],
                  [tone |-> e.tone, confidence |-> 90])

\* main.py lines 13-33: pending_drafts after the loop over the emails.
BatchPending(emails) ==
    LET drafted == {i \in Ids : emails[i].present
                                  /\ BatchDecision(emails[i]).action = "DRAFT_REPLY"}
    IN  [i \in (DOMAIN SharedPendingDrafts) \cup drafted |->
           IF i \in drafted
           THEN DraftRecord(
                    generate_draft([intent |-> emails[i].intent, confidence |-> 90],
                                   emails[i].tpl), i)
           ELSE SharedPendingDrafts[i]]

\* main.py lines 38-39: json.dump(pending_drafts, f) over the opened file.
BatchSaveFile(pending_drafts) == [exists |-> TRUE, drafts |-> pending_drafts]

NotValidated == "not_validated"

\* main.py: a run over a batch of emails.  No validator is called on a draft
\* before it is stored.
BatchRun ==
    /\ \E emails \in [Ids -> BatchEmails] :
         LET pending_drafts == BatchPending(emails)
         IN  /\ file' = BatchSaveFile(pending_drafts)
             /\ origin' = [i \in DOMAIN pending_drafts |->
                             [action |-> BatchDecision(emails[i]).action,
                              validation |-> NotValidated]]
             /\ expected' = pending_drafts
    /\ UNCHANGED <<botvars, modifyTarget>>
    /\ UNCHANGED <<dvars, gvars, vvars>>

(***************************************************************************)
(* automation/telegram_bot.py: the handlers.  The application handles one  *)
(* update at a time; a handler runs up to the reply it awaits and finishes  *)
(* afterwards (BotResume), and only main.py can act in between.             *)
(***************************************************************************)
\* update.message.text.strip() of the messages operators send
Messages ==
    {"send", "approve", "yes", "modify", "edit", "change", "ignore", "skip",
     "no", "Send", "draft 1", "please shorten"}

\* The texts operators send as the new body of a draft; one of them is a
\* disposition word.
ModificationTexts == {"send", "please shorten"}

\* str.lower
Lower(text) == IF text = "Send" THEN "send" ELSE text

\* text_lower.startswith('draft ')
StartsWithDraft(text_lower) == text_lower = "draft 1"

Session(current_draft_id, awaiting_modification) ==
    [current_draft_id |-> current_draft_id,
     awaiting_modification |-> awaiting_modification]

Reply(op, kind, id) == [op |-> op, kind |-> kind, id |-> id]

\* The history of 'modify' is kept only in runs that start recording it.
Unrecorded == "unrecorded"

\* The draft an operator's pending 'modify' was about, after a step of a
\* handler: none when no text is awaited, the draft focused when the awaiting
\* began otherwise.
TargetAfter(op, target) ==
    IF target = Unrecorded THEN Unrecorded
    ELSE IF ~user_data'[op].awaiting_modification THEN None
    ELSE IF ~user_data[op].awaiting_modification
    THEN user_data[op].current_draft_id
    ELSE target

Idle == [op |-> None, k |-> "none"]

\* list_drafts (and start): a reply, no state change.
ListDrafts(op) ==
    /\ botCont = Idle
    /\ reply' = Reply(op, IF DOMAIN load_drafts = {} THEN "no_drafts" ELSE "list", None)
    /\ UNCHANGED <<user_data, botCont, file, origin, expected, modifyTarget>>
    /\ UNCHANGED <<dvars, gvars, vvars>>

\* send_draft: the /draft command.
SendDraft(op, args) ==
    /\ botCont = Idle
    /\ IF args = <<>>
       THEN /\ reply' = Reply(op, "usage", None)
            /\ UNCHANGED user_data
       ELSE LET email_id == args[1]
                drafts == load_drafts
            IN  IF email_id \notin DOMAIN drafts
                THEN /\ reply' = Reply(op, "no_draft_found", email_id)
                     /\ UNCHANGED user_data
                ELSE /\ user_data' =
                          [user_data EXCEPT ![op].current_draft_id = email_id]
                     /\ reply' = Reply(op, "shown", email_id)
    /\ UNCHANGED <<botCont, file, origin, expected, modifyTarget>>
    /\ UNCHANGED <<dvars, gvars, vvars>>

\* handle_response lines 82-109 leaving the session awaiting after an update.
HandleModificationText_KeepsAwaiting(op, text) ==
    LET email_id == user_data[op].current_draft_id
        drafts == load_drafts
    IN  IF email_id \in DOMAIN drafts
        THEN /\ file' = save_drafts([drafts EXCEPT ![email_id].draft = text])
             /\ expected' = [expected EXCEPT ![email_id].draft = text]
             /\ reply' = Reply(op, "updated", email_id)
             /\ UNCHANGED <<user_data, botCont>>
        ELSE /\ reply' = Reply(op, "no_longer_exists", email_id)
             /\ botCont' = [op |-> op, k |-> "reset_session"]
             /\ UNCHANGED <<user_data, file, expected>>

\* handle_response lines 82-109 without the test that the draft is still in
\* the loaded dictionary: the text is stored under the focused id.
HandleModificationText_Unchecked(op, text) ==
    LET email_id == user_data[op].current_draft_id
        drafts == load_drafts
    IN  /\ file' = save_drafts(DictPut(drafts, email_id, DraftRecord(text, email_id)))
        /\ expected' = DictPut(expected, email_id, DraftRecord(text, email_id))
        /\ user_data' = [user_data EXCEPT ![op].awaiting_modification = FALSE]
        /\ reply' = Reply(op, "updated", email_id)
        /\ UNCHANGED botCont

\* handle_response lines 82-109: the message is the modification text.
HandleModificationText(op, text) ==
    LET email_id == user_data[op].current_draft_id
        drafts == load_drafts
    IN  IF email_id = None
        THEN /\ reply' = Reply(op, "no_reply", None)
             /\ UNCHANGED <<user_data, botCont, file, expected>>
        ELSE IF email_id \in DOMAIN drafts
        THEN /\ file' = save_drafts([drafts EXCEPT ![email_id].draft = text])
             /\ expected' = [expected EXCEPT ![email_id].draft = text]
             /\ user_data' = [user_data EXCEPT ![op].awaiting_modification = FALSE]
             /\ reply' = Reply(op, "updated", email_id)
             /\ UNCHANGED botCont
        ELSE /\ reply' = Reply(op, "no_longer_exists", email_id)
             /\ botCont' = [op |-> op, k |-> "reset_session"]
             /\ UNCHANGED <<user_data, file, expected>>

\* handle_response lines 114-128 and 141-153 reporting the disposition without
\* calling remove_draft.
HandleDisposition_NoRemove(op, done) ==
    LET current_draft_id == user_data[op].current_draft_id
    IN  IF current_draft_id # None
        THEN /\ reply' = Reply(op, done, current_draft_id)
             /\ botCont' = [op |-> op, k |-> "reset_focus"]
             /\ UNCHANGED <<user_data, file, expected>>
        ELSE /\ reply' = Reply(op, "no_active", None)
             /\ UNCHANGED <<user_data, botCont, file, expected>>

\* handle_response lines 114-128 and 141-153: send/approve/yes and
\* ignore/skip/no.
HandleDisposition(op, done) ==
    LET current_draft_id == user_data[op].current_draft_id
    IN  IF current_draft_id # None
        THEN /\ file' = RemoveDraftFile(current_draft_id)
             /\ expected' = IF RemoveDraftResult(current_draft_id)
                            THEN DictDel(expected, current_draft_id)
                            ELSE expected
             /\ reply' = Reply(op,
                               IF RemoveDraftResult(current_draft_id)
                               THEN done ELSE "not_found",
                               current_draft_id)
             /\ botCont' = [op |-> op, k |-> "reset_focus"]
             /\ UNCHANGED user_data
        ELSE /\ reply' = Reply(op, "no_active", None)
             /\ UNCHANGED <<user_data, botCont, file, expected>>

\* handle_response lines 130-139 with the check of current_draft_id left out.
HandleModify_Unchecked(op) ==
    /\ user_data' = [user_data EXCEPT ![op].awaiting_modification = TRUE]
    /\ reply' = Reply(op, "prompt_modify", None)
    /\ UNCHANGED <<botCont, file, expected>>

\* handle_response lines 130-139 dropping the focus as it starts to await.
HandleModify_DropsFocus(op) ==
    /\ user_data' = [user_data EXCEPT ![op] = Session(None, TRUE)]
    /\ reply' = Reply(op, "prompt_modify", None)
    /\ UNCHANGED <<botCont, file, expected>>

\* handle_response lines 130-139: modify/edit/change.
HandleModify(op) ==
    LET current_draft_id == user_data[op].current_draft_id
    IN  IF current_draft_id # None
        THEN /\ user_data' = [user_data EXCEPT ![op].awaiting_modification = TRUE]
             /\ reply' = Reply(op, "prompt_modify", None)
             /\ UNCHANGED <<botCont, file, expected>>
        ELSE /\ reply' = Reply(op, "no_active", None)
             /\ UNCHANGED <<user_data, botCont, file, expected>>

\* handle_response lines 155-170 forgetting the focused draft.
HandleUnknown_DropsFocus(op, text_lower) ==
    /\ reply' = Reply(op, IF StartsWithDraft(text_lower) THEN "tip" ELSE "help", None)
    /\ user_data' = [user_data EXCEPT ![op].current_draft_id = None]
    /\ UNCHANGED <<botCont, file, expected>>

\* handle_response lines 155-170: a text that is no disposition word.
HandleUnknown(op, text_lower) ==
    /\ reply' = Reply(op, IF StartsWithDraft(text_lower) THEN "tip" ELSE "help", None)
    /\ UNCHANGED <<user_data, botCont, file, expected>>

\* handle_response: a text message that is no command.
HandleResponse(op, text) ==
    /\ botCont = Idle
    /\ LET text_lower == Lower(text)
       IN  IF user_data[op].awaiting_modification
           THEN HandleModificationText(op, text)
           ELSE IF text_lower \in {"send", "approve", "yes"}
           THEN HandleDisposition(op, "sent")
           ELSE IF text_lower \in {"modify", "edit", "change"}
           THEN HandleModify(op)
           ELSE IF text_lower \in {"ignore", "skip", "no"}
           THEN HandleDisposition(op, "ignored")
           ELSE HandleUnknown(op, text_lower)
    /\ origin' = [i \in (DOMAIN origin) \cap (DOMAIN file'.drafts) |-> origin[i]]
    /\ modifyTarget' = [modifyTarget EXCEPT ![op] = TargetAfter(op, @)]
    /\ UNCHANGED <<dvars, gvars, vvars>>

\* handle_response finishing without the assignments after the reply.
BotResume_KeepsFocus ==
    /\ botCont # Idle
    /\ botCont' = Idle
    /\ UNCHANGED <<user_data, reply, file, origin, expected, modifyTarget>>
    /\ UNCHANGED <<dvars, gvars, vvars>>

\* handle_response after the awaited reply: lines 107-108 (the draft no longer
\* exists), lines 126 and 151 (send and ignore).
BotResume ==
    /\ botCont # Idle
    /\ user_data' =
         [user_data EXCEPT ![botCont.op] =
            IF botCont.k = "reset_session"
            THEN Session(None, FALSE)
            ELSE Session(None, @.awaiting_modification)]
    /\ botCont' = Idle
    /\ modifyTarget' = [modifyTarget EXCEPT ![botCont.op] = TargetAfter(botCont.op, @)]
    /\ UNCHANGED <<reply, file, origin, expected>>
    /\ UNCHANGED <<dvars, gvars, vvars>>

(***************************************************************************)
(* Specifications.                                                          *)
(***************************************************************************)
\* Before main.py has ever run and before any operator has written.
SInit ==
    /\ file = [exists |-> FALSE, drafts |-> EmptyDict]
    /\ user_data = [op \in Operators |-> Session(None, FALSE)]
    /\ botCont = Idle
    /\ reply = Reply(None, "none", None)
    /\ origin = EmptyDict
    /\ expected = EmptyDict
    /\ modifyTarget = [op \in Operators |-> Unrecorded]

BotNext ==
    \/ BotResume
    \/ \E op \in Operators :
         \/ ListDrafts(op)
         \/ \E args \in {<<>>} \cup {<<i>> : i \in Ids \cup {UnknownId}} :
              SendDraft(op, args)
         \/ \E text \in (IF user_data[op].awaiting_modification
                          THEN ModificationTexts ELSE Messages) :
              HandleResponse(op, text)

Next == BatchRun \/ BotNext

Init == DIdle /\ GIdle /\ VIdle /\ SInit

Spec == Init /\ [][Next]_vars

\* The bot alone, over the store a batch run has left.
BotInit ==
    /\ DIdle /\ GIdle /\ VIdle
    /\ \E emails \in [Ids -> BatchEmails] :
         /\ file = BatchSaveFile(BatchPending(emails))
         /\ expected = BatchPending(emails)
         /\ origin = [i \in DOMAIN BatchPending(emails) |->
                        [action |-> BatchDecision(emails[i]).action,
                         validation |-> NotValidated]]
    /\ user_data = [op \in Operators |-> Session(None, FALSE)]
    /\ botCont = Idle
    /\ reply = Reply(None, "none", None)
    /\ modifyTarget = [op \in Operators |-> Unrecorded]

BotSpec == BotInit /\ [][BotNext]_vars

\* The bot alone, recording which draft each pending 'modify' was about.
TrackedBotInit ==
    /\ DIdle /\ GIdle /\ VIdle
    /\ \E emails \in [Ids -> BatchEmails] :
         /\ file = BatchSaveFile(BatchPending(emails))
         /\ expected = BatchPending(emails)
         /\ origin = [i \in DOMAIN BatchPending(emails) |->
                        [action |-> BatchDecision(emails[i]).action,
                         validation |-> NotValidated]]
    /\ user_data = [op \in Operators |-> Session(None, FALSE)]
    /\ botCont = Idle
    /\ reply = Reply(None, "none", None)
    /\ modifyTarget = [op \in Operators |-> None]

TrackedBotSpec == TrackedBotInit /\ [][BotNext]_vars

\* One call of decide_action on arguments drawn from the input sets.
DecideInit == DInit /\ GIdle /\ VIdle /\ SInit

DecideSpec == DecideInit /\ [][DecideCall]_vars

\* One call of generate on arguments drawn from the input sets.
GenInit == DIdle /\ GInit /\ VIdle /\ SInit

GenSpec == GenInit /\ [][GenerateCall]_vars

\* One call of validate on arguments drawn from the input sets.
ValidateInit == DIdle /\ GIdle /\ VInit /\ SInit

ValidateSpec == ValidateInit /\ [][ValidateCall]_vars

\* Generation followed by validation, and validation of a given draft, on
\* signals drawn from the input sets.
GenValInit == DIdle /\ GVInit /\ SInit

GenValNext == GenerateCall \/ ValidateGenerated \/ ValidateDraftCall

GenValSpec == GenValInit /\ [][GenValNext]_vars

\* C2: when the sentiment carries the escalation flag, generate returns method
\* 'escalated' with a null draft for every intent, urgency and strategy
\* configuration, and has invoked no retrieval, LLM or template call.
C2_EscalationShortCircuit ==
    (gPhase = "done" /\ gSentiment.escalate = "true")
        => /\ gOut.result.method = "escalated"
           /\ gOut.result.draft = None
           /\ gOut.calls = <<>>

\* C2 witness: an escalation-flagged academic message went through a generator
\* with every strategy enabled, a model loaded and retrieval context at hand.
C2_Witness ==
    /\ gPhase = "done"
    /\ gSentiment.escalate = "true"
    /\ gCfg.use_rag /\ gCfg.use_llm /\ gCfg.use_templates
    /\ gCfg.model = "loaded"
    /\ gEnv.rag = "context"
    /\ gIntent.intent = "academic"
    /\ gOut.result.method = "escalated"

\* C10: for every input, configuration and strategy outcome, the returned
\* draft is null if and only if the returned method is 'escalated'.
C10_NullIffEscalated ==
    gPhase = "done" =>
        (gOut.result.draft = None <=> gOut.result.method = "escalated")

\* C10 witness: with every strategy disabled and no escalation flag the call
\* returned a text.
C10_Witness ==
    /\ gPhase = "done"
    /\ ~gCfg.use_rag /\ ~gCfg.use_llm /\ ~gCfg.use_templates
    /\ gSentiment.escalate # "true"
    /\ gOut.result.method = "fallback"
    /\ gOut.result.draft # None

\* The collaborator call recorded under this name was made by the call of
\* generate.
Called(name) == \E i \in DOMAIN gOut.calls : gOut.calls[i] = name

\* The methods a result of generate can carry.
Methods ==
    {"escalated", "rag_llm", "llm", "llm_fallback", "template",
     "template_fallback", "fallback"}

\* The retrieval strategy ran and an exception was raised inside it.
RagStepRaised ==
    /\ Called("rag_retrieve")
    /\ \/ gEnv.rag = "raise"
       \/ gEnv.rag = "context" /\ (~gCfg.use_llm \/ gEnv.llm_rag = "raise")

\* C11: an exception raised inside the retrieval step, the LLM step or the
\* template step is caught within that strategy and counts as no result:
\* generate goes on with the next strategy and returns a well-formed result
\* (a known method, a confidence, a text unless escalated), never an error,
\* for every configuration, RAG enabled with the LLM disabled included.
C11_ExceptionsContained ==
    gPhase = "done" =>
        /\ gOut.result.method \in Methods
        /\ gOut.result.confidence \in 0..100
        /\ gOut.result.method # "escalated" => gOut.result.draft # None
        /\ RagStepRaised =>
               IF gCfg.use_llm THEN Called("llm_generate")
               ELSE IF gCfg.use_templates THEN Called("template")
               ELSE gOut.result = FinalFallback
        /\ (Called("llm_generate") /\ gEnv.llm = "raise") =>
               IF gCfg.use_templates THEN Called("template")
               ELSE gOut.result = FinalFallback
        /\ (Called("template") /\ gEnv.tpl = "raise") =>
               /\ gOut.result.method = "template_fallback"
               /\ gOut.result.draft = GenericAck

\* C11 witness: RAG enabled with the LLM disabled, context retrieved for an
\* academic message: the failed retrieval step was followed by the template.
C11_Witness ==
    /\ gPhase = "done"
    /\ gCfg.use_rag /\ ~gCfg.use_llm /\ gCfg.use_templates
    /\ gEnv.rag = "context"
    /\ gIntent.intent = "academic"
    /\ gOut.calls = <<"rag_retrieve", "template">>
    /\ gOut.result.method = "template"

\* The place of a collaborator call in the order of the strategies.
Rank(name) ==
    CASE name = "rag_retrieve" -> 1
      [] name = "llm_generate_ctx" -> 2
      [] name = "llm_generate" -> 3
      [] name = "template" -> 4

\* C12: generate tries the strategies strictly in the order RAG+LLM, LLM-only,
\* template; it returns the RAG result only if its confidence exceeds 0.75,
\* otherwise the LLM-only result only if its confidence exceeds 0.70 (a
\* confidence equal to the threshold is rejected); once a strategy's result
\* is accepted no later strategy is invoked, even one that would have given a
\* higher confidence.
C12_OrderedFirstAccepted ==
    /\ \A c \in 0..100 :
         /\ RagAccepted(GenResult("text", "rag_llm", c)) <=> c > 75
         /\ LlmAccepted(GenResult("text", "llm", c)) <=> c > 70
    /\ gPhase = "done" =>
         /\ \A i, j \in DOMAIN gOut.calls :
              i < j => Rank(gOut.calls[i]) < Rank(gOut.calls[j])
         /\ (gOut.result.method # "escalated" /\ gCfg.use_rag
               /\ gIntent.intent \in {"academic", "internship", "support"})
              => Called("rag_retrieve")
         /\ (gOut.result.method \notin {"escalated", "rag_llm"} /\ gCfg.use_llm)
              => Called("llm_generate")
         /\ (gOut.result.method \notin {"escalated", "rag_llm", "llm", "llm_fallback"}
               /\ gCfg.use_templates)
              => Called("template")
         /\ gOut.result.method = "rag_llm" =>
              /\ gOut.result.confidence > 75
              /\ gOut.calls = <<"rag_retrieve", "llm_generate_ctx">>
         /\ (Called("llm_generate_ctx") /\ gEnv.llm_rag = "ok"
               /\ gCfg.model = "loaded")
              => gOut.result.method = "rag_llm"
         /\ gOut.result.method \in {"llm", "llm_fallback"} =>
              /\ gOut.result.confidence > 70
              /\ gOut.calls[Len(gOut.calls)] = "llm_generate"
         /\ (Called("llm_generate") /\ gEnv.llm = "ok" /\ gCfg.model = "loaded")
              => gOut.result.method = "llm"

\* C12 witness: the RAG result was accepted at 0.80 and nothing was called
\* after it, although the template strategy was enabled and would have
\* rendered at 0.85.
C12_Witness ==
    /\ gPhase = "done"
    /\ gOut.result.method = "rag_llm"
    /\ gOut.result.confidence = 80
    /\ gCfg.use_llm /\ gCfg.use_templates
    /\ gEnv.llm = "ok" /\ gEnv.tpl = "ok"
    /\ TemplateEngineGenerate(gIntent.intent, gEnv.tpl).confidence = 85
    /\ gOut.calls = <<"rag_retrieve", "llm_generate_ctx">>

\* C13: if every strategy is disabled, or no enabled strategy produced a
\* usable result, generate returns the fixed generic acknowledgment with
\* confidence 0.60 and method 'fallback'.  The template strategy, when
\* enabled, always produces a result, its own fallback text included.
C13_FallbackWhenNothingUsable ==
    (gPhase = "done" /\ gSentiment.escalate # "true") =>
        LET ragUsable == /\ gCfg.use_rag
                         /\ gIntent.intent \in {"academic", "internship", "support"}
                         /\ gEnv.rag = "context"
                         /\ gCfg.use_llm /\ gEnv.llm_rag = "ok"
                         /\ gCfg.model = "loaded"
            llmUsable == gCfg.use_llm /\ gEnv.llm = "ok" /\ gCfg.model = "loaded"
        IN  (~ragUsable /\ ~llmUsable /\ ~gCfg.use_templates) <=>
                /\ gOut.result.draft = GenericAck
                /\ gOut.result.confidence = 60
                /\ gOut.result.method = "fallback"

\* C13 witness: RAG and LLM were enabled and tried, templates were not; with
\* no model loaded the LLM's text stayed below its threshold and the generic
\* acknowledgment was returned.
C13_Witness ==
    /\ gPhase = "done"
    /\ gCfg.use_rag /\ gCfg.use_llm /\ ~gCfg.use_templates
    /\ gCfg.model = "none"
    /\ gEnv.rag = "context" /\ gEnv.llm_rag = "ok" /\ gEnv.llm = "ok"
    /\ gIntent.intent = "support"
    /\ gOut.calls = <<"rag_retrieve", "llm_generate_ctx", "llm_generate">>
    /\ gOut.result = FinalFallback

\* C25: the RAG strategy is attempted only when RAG is enabled and the intent
\* is academic, internship or support; when retrieval yields no context the
\* RAG strategy invokes no text generation at all and the orchestrator goes
\* on to the LLM-only strategy.
C25_RagOnlyForKnowledgeIntents ==
    gPhase = "done" =>
        /\ Called("rag_retrieve") <=>
             /\ gSentiment.escalate # "true"
             /\ gCfg.use_rag
             /\ gIntent.intent \in {"academic", "internship", "support"}
        /\ Called("llm_generate_ctx") => Called("rag_retrieve")
        /\ (Called("rag_retrieve") /\ gEnv.rag = "empty") =>
             /\ ~Called("llm_generate_ctx")
             /\ gOut.result.method # "rag_llm"
             /\ gCfg.use_llm =>
                  /\ Len(gOut.calls) >= 2
                  /\ gOut.calls[2] = "llm_generate"

\* C25 witness: for a support message nothing was retrieved; the next call was
\* the LLM without context, whose text was returned.
C25_Witness ==
    /\ gPhase = "done"
    /\ gIntent.intent = "support"
    /\ gCfg.use_rag /\ gCfg.use_llm /\ gCfg.model = "loaded"
    /\ gEnv.rag = "empty"
    /\ gOut.calls = <<"rag_retrieve", "llm_generate">>
    /\ gOut.result.method = "llm"

\* C29: with no language model loaded (the LLM generator then reports 0.65
\* and 'llm_fallback') neither the RAG+LLM nor the LLM-only result is ever
\* accepted, so generate never returns 'llm_fallback': the method is one of
\* escalated, rag_llm, llm, template, template_fallback, fallback, and rag_llm
\* or llm only when a model is loaded.
C29_NoModelNoLlmResult ==
    gPhase = "done" =>
        /\ gOut.result.method \in
             {"escalated", "rag_llm", "llm", "template", "template_fallback",
              "fallback"}
        /\ gOut.result.method \in {"rag_llm", "llm"} => gCfg.model = "loaded"
        /\ gCfg.model = "none" =>
             \A context \in BOOLEAN :
                 /\ LLMGenerate(gCfg.model, gIntent.intent, context).confidence = 65
                 /\ LLMGenerate(gCfg.model, gIntent.intent, context).method
                      = "llm_fallback"

\* C29 witness: with no model loaded both the RAG+LLM and the LLM-only
\* strategies ran for an academic message and the template text was returned.
C29_Witness ==
    /\ gPhase = "done"
    /\ gCfg.model = "none"
    /\ gIntent.intent = "academic"
    /\ gOut.calls = <<"rag_retrieve", "llm_generate_ctx", "llm_generate", "template">>
    /\ gOut.result.method = "template"

(***************************************************************************)
(* The validator.                                                           *)
(***************************************************************************)
\* The result of the call carries an issue of this type.
HasIssue(type) == \E k \in DOMAIN vOut.issues : vOut.issues[k].type = type

\* C14: passed is true exactly when no issue has severity high or critical;
\* the recommendation is 'approve' if and only if passed, else 'escalate'; a
\* draft whose only issue is the medium too-short one (fewer than 10 words)
\* still has passed = true.
C14_PassedIffNoSevereIssue ==
    vPhase = "done" =>
        /\ vOut.passed <=>
             ~\E k \in DOMAIN vOut.issues :
                 vOut.issues[k].severity \in {"high", "critical"}
        /\ vOut.passed <=>
             /\ Min2(vGenConf, vClassConf) >= ValidatorThreshold(vIntent)
             /\ InappropriateFound(vDraft) = {}
             /\ vSentiment # "aggressive"
        /\ vOut.recommendation = (IF vOut.passed THEN "approve" ELSE "escalate")
        /\ WordCount(vDraft) < 10 <=> HasIssue("too_short")
        /\ vOut.issues = <<Issue("too_short", "medium")>> => vOut.passed

\* C14 witness: a two-word draft validated with sufficient confidences: its
\* only issue is the too-short one and it passed.
C14_Witness ==
    /\ vPhase = "done"
    /\ vDraft = "please shorten"
    /\ vOut.issues = <<Issue("too_short", "medium")>>
    /\ vOut.passed
    /\ vOut.recommendation = "approve"

\* C15: the validator's confidence check uses the Decision Engine's threshold
\* table (academic 0.80, internship 0.75, meeting 0.70, spam 0.0, every other
\* intent 0.85): the high low-confidence issue is there exactly when the
\* smaller of the generation and classification confidences is below the
\* threshold decide_action uses for the intent.
C15_ThresholdsOfDecisionEngine ==
    vPhase = "done" =>
        (HasIssue("low_confidence")
            <=> Min2(vGenConf, vClassConf) < DecisionThreshold(vIntent))

\* C16: validate called with sentiment 'aggressive' adds a critical issue
\* recommending escalation and returns passed = false with recommendation
\* 'escalate', whatever the draft, the intent and the confidences.
C16_AggressiveNeverPasses ==
    (vPhase = "done" /\ vSentiment = "aggressive") =>
        /\ \E k \in DOMAIN vOut.issues :
             vOut.issues[k] = Issue("aggressive_sender", "critical")
        /\ ~vOut.passed
        /\ vOut.recommendation = "escalate"

\* C16 witness: a clean academic template text with full confidences and an
\* aggressive sentiment: the tone issue is the only one and the draft failed.
C16_Witness ==
    /\ vPhase = "done"
    /\ vSentiment = "aggressive"
    /\ vDraft = "tpl_academic"
    /\ vIntent = "academic"
    /\ vGenConf = 90 /\ vClassConf = 90
    /\ vOut.issues = <<Issue("aggressive_sender", "critical")>>
    /\ ~vOut.passed

(***************************************************************************)
(* Generation and validation together.                                      *)
(***************************************************************************)
\* C24: for every intent label, a message that decide_action routes to
\* DRAFT_REPLY and whose draft comes from the template strategy (confidence
\* 0.85, with greeting and signature, non-aggressive sentiment) is marked
\* passed = true by the validator.
C24_TemplateDraftPasses ==
    (/\ vPhase = "done"
     /\ gOut.result.method = "template"
     /\ gSentiment.tone # "aggressive"
     /\ decide_action(gIntent, gUrgency,
                      [tone |-> "NEUTRAL", confidence |-> gSentiment.confidence]
                     ).action = "DRAFT_REPLY")
    => vOut.passed

\* The part of C24 about the confidences: for a template draft of a message
\* routed to DRAFT_REPLY the validator's confidence check raises no issue.
TemplateDraftClearsConfidenceCheck ==
    (/\ vPhase = "done"
     /\ gOut.result.method = "template"
     /\ decide_action(gIntent, gUrgency,
                      [tone |-> "NEUTRAL", confidence |-> gSentiment.confidence]
                     ).action = "DRAFT_REPLY")
    => ~HasIssue("low_confidence")

\* C26: for every sentiment signal carrying the escalation flag, validating
\* any draft through validate_draft yields the critical aggressive-sender
\* issue and passed = false.
C26_FlaggedSentimentFailsValidation ==
    (vPhase \in {"done", "direct"} /\ gSentiment.escalate = "true") =>
        /\ HasIssue("aggressive_sender")
        /\ ~vOut.passed

\* C30: a result of the orchestrator's own fallbacks (method 'fallback' with
\* 0.60, method 'template_fallback' with 0.65) never passes validation, for
\* any intent label and any classification confidence: it always gets the
\* high low-confidence issue and the recommendation 'escalate'.
C30_FallbacksNeverPass ==
    (/\ vPhase = "done"
     /\ gOut.result.method \in {"fallback", "template_fallback"}
     /\ gOut.result.confidence \in {60, 65})
    => /\ \E k \in DOMAIN vOut.issues :
            vOut.issues[k] = Issue("low_confidence", "high")
       /\ ~vOut.passed
       /\ vOut.recommendation = "escalate"
       /\ \A intent \in IntentLabels : ValidatorThreshold(intent) >= 70

\* C30 witness: the final fallback's text for a meeting message, the intent
\* with the lowest threshold, was validated with classification confidence
\* 0.90 and got the low-confidence issue.
C30_Witness ==
    /\ vPhase = "done"
    /\ gOut.result = FinalFallback
    /\ vIntent = "meeting"
    /\ vGenConf = 60
    /\ vClassConf = 90
    /\ HasIssue("low_confidence")
    /\ ~vOut.passed

(***************************************************************************)
(* The draft store and the approval sessions.                               *)
(***************************************************************************)
\* C3: every record in the store belongs to a message decided DRAFT_REPLY
\* whose draft the validator accepted (passed); nothing is stored for
\* ESCALATE or IGNORE, nor for a draft not validated or failing validation.
C3_StoredOnlyIfAccepted ==
    \A id \in DOMAIN load_drafts :
        /\ id \in DOMAIN origin
        /\ origin[id].action = "DRAFT_REPLY"
        /\ origin[id].validation = "passed"

\* The part of C3 about the decision alone: every stored record belongs to a
\* message decided DRAFT_REPLY.
StoredOnlyIfDraftReply ==
    \A id \in DOMAIN load_drafts :
        id \in DOMAIN origin /\ origin[id].action = "DRAFT_REPLY"

\* A fresh report that a draft was sent goes to an operator who replied
\* send/approve/yes while focused on it.
SentOnlyByApproval ==
    (reply' # reply /\ reply'.kind = "sent") =>
        /\ \E op \in Operators, text \in Messages :
             /\ Lower(text) \in {"send", "approve", "yes"}
             /\ reply'.op = op
             /\ HandleResponse(op, text)
        /\ user_data[reply'.op].current_draft_id = reply'.id
        /\ reply'.id \in DOMAIN load_drafts

\* An operator's focus moves to a draft only by selecting it while it is in
\* the store.
FocusOnlyBySelection ==
    \A op \in Operators :
        LET d == user_data'[op].current_draft_id
        IN  (d # None /\ d # user_data[op].current_draft_id) =>
                /\ d \in DOMAIN load_drafts
                /\ reply' = Reply(op, "shown", d)

\* A draft leaves the store only with the send or ignore report of an
\* operator focused on it.
LeavesOnlyByDisposition ==
    \A id \in (DOMAIN load_drafts) \ (DOMAIN LoadOf(file')) :
        /\ reply' # reply
        /\ reply'.kind \in {"sent", "ignored"}
        /\ reply'.id = id
        /\ user_data[reply'.op].current_draft_id = id

\* C4: a draft is reported sent only on an operator's send/approve/yes reply
\* while it is that operator's focused draft, selected earlier while it was
\* in the store; the batch run marks nothing sent; and no draft leaves the
\* store except through an operator's send or ignore.
C4_SentAndRemovedOnlyByOperator ==
    [][SentOnlyByApproval /\ FocusOnlyBySelection /\ LeavesOnlyByDisposition]_vars

\* The parts of C4 about the sent report and the focus.
C4_SentOnlyByFocusedOperator ==
    [][SentOnlyByApproval /\ FocusOnlyBySelection]_vars

\* C5: for every operator, awaiting_modification implies that a draft is
\* focused and that this draft is in the store.
C5_AwaitingImpliesPresent ==
    \A op \in Operators :
        user_data[op].awaiting_modification =>
            /\ user_data[op].current_draft_id # None
            /\ user_data[op].current_draft_id \in DOMAIN load_drafts

\* C5 as amended: for every operator, awaiting_modification implies that a
\* draft id is focused (the draft itself may have left the store since).
C5_AwaitingImpliesFocused ==
    \A op \in Operators :
        user_data[op].awaiting_modification =>
            user_data[op].current_draft_id # None

\* C5 witness: an operator awaits the modification text for a draft that
\* another operator has just disposed of.
C5_Witness ==
    \E op \in Operators :
        /\ user_data[op].awaiting_modification
        /\ reply.op # op
        /\ reply.kind \in {"sent", "ignored"}
        /\ reply.id = user_data[op].current_draft_id

\* C6: whatever the interleaving of the operators' messages, the persisted
\* store is the initial store with every acknowledged text update and every
\* acknowledged removal applied: no update is lost, no removed draft is back.
C6_StoreReflectsAcknowledgedWrites == load_drafts = expected

\* C6 witness: one operator has replaced the text of draft 1 and another has
\* then had draft 2 removed.
C6_Witness ==
    /\ "1" \in DOMAIN load_drafts
    /\ load_drafts["1"].draft = "please shorten"
    /\ user_data["op1"].current_draft_id = "1"
    /\ reply = Reply("op2", "sent", "2")
    /\ "2" \notin DOMAIN load_drafts

\* C7: every write to the store starts from the persisted snapshot and writes
\* it back whole, so it keeps every record other than the ones it is about:
\* the draft an operator updates or removes, the drafts a batch run stores.
C7_WritesKeepOtherRecords ==
    [][\A id \in DOMAIN load_drafts :
          \/ /\ id \in DOMAIN LoadOf(file')
             /\ LoadOf(file')[id] = load_drafts[id]
          \/ /\ reply' # reply
             /\ reply'.kind \in {"updated", "sent", "ignored"}
             /\ reply'.id = id
          \/ /\ reply' = reply
             /\ id \in DOMAIN LoadOf(file')]_vars

\* The session states of an operator.
InFocused(op) ==
    /\ user_data[op].current_draft_id # None
    /\ ~user_data[op].awaiting_modification

\* remove_draft applied to the persisted store, once and then once more.
RemoveAlgebra ==
    \A id \in Ids \cup {UnknownId} :
        LET first == remove_draft(file, id)
            second == remove_draft(first.file, id)
        IN  /\ id \in DOMAIN load_drafts =>
                 /\ first.result
                 /\ DOMAIN LoadOf(first.file) = (DOMAIN load_drafts) \ {id}
                 /\ \A other \in (DOMAIN load_drafts) \ {id} :
                      LoadOf(first.file)[other] = load_drafts[other]
            /\ id \notin DOMAIN load_drafts =>
                 /\ ~first.result
                 /\ first.file = file
            /\ ~second.result
            /\ second.file = first.file

\* A send or ignore reply of a focused operator is answered from what
\* remove_draft returned and leaves the store remove_draft leaves.
RemovalStep ==
    \A op \in Operators, text \in Messages :
        (/\ InFocused(op)
         /\ Lower(text) \in {"send", "approve", "yes", "ignore", "skip", "no"}
         /\ HandleResponse(op, text))
        => LET id == user_data[op].current_draft_id
           IN  IF id \in DOMAIN load_drafts
               THEN /\ reply'.kind \in {"sent", "ignored"}
                    /\ DOMAIN LoadOf(file') = (DOMAIN load_drafts) \ {id}
                    /\ \A other \in (DOMAIN load_drafts) \ {id} :
                         LoadOf(file')[other] = load_drafts[other]
               ELSE /\ reply'.kind = "not_found"
                    /\ file' = file

\* C17: remove_draft(id) on a store holding id returns true, after which a
\* lookup of id finds nothing and every other record is unchanged; on an
\* absent id it returns false and leaves the persisted store unchanged; called
\* twice in a row for the same id, the second call returns false without
\* error.
C17_RemoveDraftAlgebra == []RemoveAlgebra /\ [][RemovalStep]_vars

\* C17 witness: draft 1 was removed for one operator and a second removal of
\* it, for the other operator, has answered false; draft 2 is still stored.
C17_Witness ==
    /\ reply = Reply("op2", "not_found", "1")
    /\ "1" \notin DOMAIN load_drafts
    /\ "2" \in DOMAIN load_drafts

\* C18: a select-draft command for an id in the store puts the session in
\* FOCUSED (a draft focused, no modification text awaited) with that id as
\* the focused draft; for an id not in the store it reports not-found and
\* leaves the session and the store unchanged.
C18_SelectFocuses ==
    [][\A op \in Operators, id \in Ids \cup {UnknownId} :
          SendDraft(op, <<id>>) =>
              IF id \in DOMAIN load_drafts
              THEN user_data'[op] = Session(id, FALSE)
              ELSE /\ reply' = Reply(op, "no_draft_found", id)
                   /\ user_data' = user_data
                   /\ file' = file]_vars

\* A handler that answered a send or ignore reply has ended: the operator's
\* session is reset and the draft is not in the store.
DispositionEnd ==
    (botCont = Idle /\ reply.kind \in {"sent", "ignored", "not_found"}) =>
        /\ user_data[reply.op] = Session(None, FALSE)
        /\ reply.id \notin DOMAIN load_drafts

\* The report of a send or ignore reply from FOCUSED: success if the draft
\* was still in the store, not found otherwise.
DispositionReport ==
    \A op \in Operators, text \in Messages :
        (/\ InFocused(op)
         /\ Lower(text) \in {"send", "approve", "yes", "ignore", "skip", "no"}
         /\ HandleResponse(op, text))
        => LET id == user_data[op].current_draft_id
               done == IF Lower(text) \in {"send", "approve", "yes"}
                       THEN "sent" ELSE "ignored"
           IN  /\ reply' = Reply(op,
                                 IF id \in DOMAIN load_drafts
                                 THEN done ELSE "not_found",
                                 id)
               /\ id \notin DOMAIN LoadOf(file')
               /\ botCont' = [op |-> op, k |-> "reset_focus"]

\* C19: from FOCUSED, a reply in {send, approve, yes} or {ignore, skip, no}
\* always ends with the session reset to {no focused draft, not awaiting}
\* and the focused draft absent from the store; success is reported if the
\* draft was still in the store, 'not found' if it had already gone.
C19_DispositionEndsReset ==
    []DispositionEnd /\ [][DispositionReport]_vars

\* C19 witness: two operators focused draft 1; the first had it sent, the
\* second replied ignore, was told it was not found, and is reset.
C19_Witness ==
    /\ botCont = Idle
    /\ reply = Reply("op2", "not_found", "1")
    /\ user_data["op2"] = Session(None, FALSE)
    /\ user_data["op1"] = Session(None, FALSE)
    /\ "1" \notin DOMAIN load_drafts

\* C20: from FOCUSED, a reply in {modify, edit, change} moves the session to
\* AWAITING_MODIFICATION_TEXT and leaves the store and the focused draft id
\* unchanged.
C20_ModifyKeepsStoreAndFocus ==
    [][\A op \in Operators, text \in Messages :
          (/\ InFocused(op)
           /\ Lower(text) \in {"modify", "edit", "change"}
           /\ HandleResponse(op, text))
          => /\ user_data'[op] =
                  Session(user_data[op].current_draft_id, TRUE)
             /\ file' = file
             /\ \A other \in Operators \ {op} :
                  user_data'[other] = user_data[other]]_vars

\* C20 witness: an operator focused on draft 1, which is in the store, has
\* been prompted for the new text and is awaiting it.
C20_Witness ==
    /\ reply = Reply("op1", "prompt_modify", None)
    /\ user_data["op1"] = Session("1", TRUE)
    /\ "1" \in DOMAIN load_drafts

\* The session states of an operator besides FOCUSED.
InIdle(op) == user_data[op] = Session(None, FALSE)

InAwaiting(op) ==
    /\ user_data[op].current_draft_id # None
    /\ user_data[op].awaiting_modification

\* The modification text of an awaiting operator replaces the text of the
\* focused draft and the session is FOCUSED on it again; with Present the
\* statement is only about a draft still in the store.
TextUpdates(Present(_)) ==
    \A op \in Operators, text \in ModificationTexts :
        (/\ InAwaiting(op)
         /\ Present(user_data[op].current_draft_id)
         /\ HandleResponse(op, text))
        => LET d == user_data[op].current_draft_id
           IN  /\ user_data'[op] = Session(d, FALSE)
               /\ d \in DOMAIN LoadOf(file')
               /\ LoadOf(file')[d].draft = text
               /\ reply' = Reply(op, "updated", d)

StillStored(d) == d \in DOMAIN load_drafts

Whatever(d) == TRUE

\* A send reply of an operator focused on a draft still in the store removes
\* it; the handler then ends with the session IDLE.
SendRemoves ==
    \A op \in Operators, text \in Messages :
        (/\ InFocused(op)
         /\ StillStored(user_data[op].current_draft_id)
         /\ Lower(text) \in {"send", "approve", "yes"}
         /\ HandleResponse(op, text))
        => /\ reply' = Reply(op, "sent", user_data[op].current_draft_id)
           /\ user_data[op].current_draft_id \notin DOMAIN LoadOf(file')

SentEndsIdle ==
    (botCont = Idle /\ reply.kind = "sent") => InIdle(reply.op)

\* C21: from FOCUSED on draft d, 'modify' followed by any free text t (a
\* disposition word included) returns the session to FOCUSED on d with the
\* store's text for d replaced by t and d still present; a 'send' after that
\* removes the updated draft and returns the session to IDLE.
C21_ModifyThenTextUpdates ==
    []SentEndsIdle /\ [][TextUpdates(Whatever) /\ SendRemoves]_vars

\* C21 as amended: the same, provided d is still in the store when t arrives
\* (it may have been disposed of by another operator in the meantime).
C21_ModifyThenTextUpdatesStored ==
    []SentEndsIdle /\ [][TextUpdates(StillStored) /\ SendRemoves]_vars

\* C21 witness: the text of draft 1 was replaced by the word 'send' and the
\* operator is FOCUSED on it again.
C21_Witness ==
    /\ reply = Reply("op1", "updated", "1")
    /\ user_data["op1"] = Session("1", FALSE)
    /\ "1" \in DOMAIN load_drafts
    /\ load_drafts["1"].draft = "send"

\* The replies a handler gives; none of them reports an error.
ReplyKinds ==
    {"none", "no_drafts", "list", "usage", "no_draft_found", "shown", "no_reply",
     "updated", "no_longer_exists", "sent", "ignored", "not_found", "no_active",
     "prompt_modify", "tip", "help"}

\* The modification text for a draft no longer in the store changes nothing
\* and is answered with 'no longer exists'.
VanishedText ==
    \A op \in Operators, text \in ModificationTexts :
        (/\ InAwaiting(op)
         /\ ~StillStored(user_data[op].current_draft_id)
         /\ HandleResponse(op, text))
        => /\ file' = file
           /\ reply' = Reply(op, "no_longer_exists", user_data[op].current_draft_id)
           /\ botCont' = [op |-> op, k |-> "reset_session"]

VanishedEndsIdle ==
    /\ reply.kind \in ReplyKinds
    /\ (botCont = Idle /\ reply.kind = "no_longer_exists") =>
           /\ InIdle(reply.op)
           /\ reply.id \notin DOMAIN load_drafts

\* C22: if the focused draft is no longer in the store when the modification
\* text arrives, no record is created or changed for that id, the operator is
\* told the draft no longer exists, and the session resets to IDLE; in no
\* session state does a missing draft cause an unhandled error.
C22_VanishedDraftResets == []VanishedEndsIdle /\ [][VanishedText]_vars

\* C22 witness: an operator's modification text arrived after the draft had
\* been removed for another operator; the operator was told so and is IDLE.
C22_Witness ==
    /\ botCont = Idle
    /\ reply = Reply("op1", "no_longer_exists", "1")
    /\ InIdle("op1")
    /\ "1" \notin DOMAIN load_drafts

\* C23: a reply matching no disposition word, received while IDLE or FOCUSED,
\* leaves the session and the store unchanged and yields a help message; a
\* disposition word received while IDLE changes neither.
C23_UnknownReplyChangesNothing ==
    [][\A op \in Operators, text \in Messages :
          (/\ InIdle(op) \/ InFocused(op)
           /\ HandleResponse(op, text))
          => LET word == Lower(text) \in
                           {"send", "approve", "yes", "modify", "edit", "change",
                            "ignore", "skip", "no"}
             IN  /\ ~word =>
                       /\ reply'.kind \in {"help", "tip"}
                       /\ reply'.op = op
                       /\ user_data' = user_data
                       /\ file' = file
                       /\ botCont' = Idle
                 /\ (word /\ InIdle(op)) =>
                       /\ reply' = Reply(op, "no_active", None)
                       /\ user_data' = user_data
                       /\ file' = file
                       /\ botCont' = Idle]_vars

\* C23 witness: an operator focused on draft 1 sent a text that is no
\* disposition word, got the help message and is still focused on draft 1.
C23_Witness ==
    /\ reply = Reply("op1", "help", None)
    /\ user_data["op1"] = Session("1", FALSE)
    /\ "1" \in DOMAIN load_drafts

\* C27: a modification text is applied only to the draft that was in focus
\* when the operator issued 'modify': selecting another stored draft between
\* the 'modify' reply and the free text never makes the text overwrite the
\* newly selected draft.
C27_TextGoesToModifiedDraft ==
    [][\A op \in Operators, text \in ModificationTexts :
          (/\ InAwaiting(op)
           /\ HandleResponse(op, text)
           /\ reply'.kind = "updated")
          => /\ reply'.id = modifyTarget[op]
             /\ \A id \in (DOMAIN load_drafts) \ {modifyTarget[op]} :
                  LoadOf(file')[id] = load_drafts[id]]_vars

\* A send or ignore reply succeeds exactly when the focused draft is in the
\* store, and a success takes the draft out of the store.
SuccessTakesDraft ==
    \A op \in Operators, text \in Messages :
        (/\ InFocused(op)
         /\ Lower(text) \in {"send", "approve", "yes", "ignore", "skip", "no"}
         /\ HandleResponse(op, text))
        => LET d == user_data[op].current_draft_id
           IN  /\ reply'.op = op /\ reply'.id = d
               /\ reply'.kind \in {"sent", "ignored", "not_found"}
               /\ reply'.kind \in {"sent", "ignored"} <=> d \in DOMAIN load_drafts
               /\ d \notin DOMAIN LoadOf(file')

\* No handler of the bot puts a draft into the store.
NothingComesBack == DOMAIN LoadOf(file') \subseteq DOMAIN load_drafts

\* Once an operator's disposition has been answered and its handler has
\* ended, that operator is IDLE.
AnsweredIsIdle ==
    (botCont = Idle /\ reply.kind \in {"sent", "ignored", "not_found"})
        => InIdle(reply.op)

\* C28: for a draft stored once, at most one terminal disposition is ever
\* reported successful across the operators: when two operators focus the
\* same draft and both reply with a send or ignore word, in every
\* interleaving one gets the success report, the other 'not found', and both
\* sessions end IDLE.
C28_OneSuccessfulDisposition ==
    []AnsweredIsIdle /\ [][SuccessTakesDraft /\ NothingComesBack]_vars

\* C28 witness: both operators had focused draft 2 and both replied; the
\* second to reply, op1, was told 'not found', and both are IDLE.
C28_Witness ==
    /\ botCont = Idle
    /\ reply = Reply("op1", "not_found", "2")
    /\ InIdle("op1") /\ InIdle("op2")
    /\ "2" \notin DOMAIN load_drafts

====
